---- MODULE Spec2Model ----
(***************************************************************************)
(* Model of the task planner of the assistant backend:                     *)
(*   backend/app/services/planner/{schema,registry,ordering,llm_planner}.py *)
(* The topological sorter is modelled step by step (one transition per     *)
(* loop iteration / call / return of visit); validate_plan, sanitize_plan  *)
(* and the parsing are operators; planner_engine is a pipeline of steps.   *)
(***************************************************************************)
EXTENDS Integers, Sequences, FiniteSets, TLC

VARIABLES
    registry,   \* ToolRegistry._tools: the catalog, in insertion order
    arg,        \* a task list a caller has assembled
    ts,         \* the frame of a topological_sort(arg) call
    vres,       \* outcome of a validate_plan call on PlannerTaskGraph(arg)
    llm,        \* what llm_complete does when it is called
    pc,         \* position of the planner_engine call
    goal,       \* planner_engine argument
    context,    \* planner_engine argument
    prompt,     \* local of planner_engine
    raw,        \* local of planner_engine: what llm_complete returned
    plan,       \* local of planner_engine: the parsed graph
    err,        \* the exception raised inside the try block
    ret,        \* what planner_engine returned
    escaped,    \* the exception planner_engine let out to its caller
    vres2,      \* outcome of validate_plan on the graph a first call returned
    sres,       \* a sanitize_plan call: the graph given and the graph returned
    lookups,    \* the ToolRegistry calls made so far, with their outcomes
    other       \* the frame of a second planner_engine call

vars == <<registry, arg, ts, vres, llm, pc, goal, context, prompt, raw, plan,
          err, ret, escaped, vres2, sres, lookups, other>>

auxVars == <<vres2, sres, lookups, other>>

engineVars == <<llm, pc, goal, context, prompt, raw, plan, err, ret, escaped>>

-----------------------------------------------------------------------------
(* Bounds of the explored inputs *)

MaxTasks == 3       \* longest task list handed to topological_sort
MaxEdges == 3       \* most depends_on entries in such a list, all tasks together
LiveMaxTasks == 3   \* the same two bounds where termination is checked
LiveMaxEdges == 2
ValMaxTasks == 3    \* longest task list handed to validate_plan
ValMaxEdges == 2    \* most depends_on entries in such a list
PlanMaxTasks == 2   \* longest task list in a completion's output
PlanMaxEdges == 1   \* most depends_on entries in a completion's output
SanMaxTasks == 2    \* longest task list handed to sanitize_plan
SanMaxEdges == 1    \* most depends_on entries in such a list
MaxLookups == 3     \* most ToolRegistry calls of one behaviour
ConcMaxTasks == 2   \* longest task list in a completion's output, two calls
ConcMaxEdges == 1   \* most depends_on entries in such an output
UseMaxTasks == 2    \* longest task list of a caller using every operation
UseMaxEdges == 1    \* most depends_on entries in such a list

IdNames == <<"a", "b", "c">>  \* task ids of the inputs
Dangling == "z"               \* a name that is never a task_id
None == [none |-> TRUE]       \* Python's None
NoId == ""                    \* no task id

Min(x, y) == IF x < y THEN x ELSE y

\* The code compares ids only for equality, so the k-th task of an input
\* takes its id among the first k names: every pattern of equal and distinct
\* ids occurs, up to renaming.
IdsAt(k) == {IdNames[i] : i \in 1..Min(k, Len(IdNames))}

DepNames == {IdNames[i] : i \in 1..Len(IdNames)} \cup {Dangling}

-----------------------------------------------------------------------------
(* schema.py *)

FailurePolicies == {"abort", "skip", "retry"}
NonePolicy == "<None>"        \* failure_policy holding Python's None
Falsy == {NonePolicy, ""}     \* the policies `not t.failure_policy` accepts
Missing == "<missing>"        \* failure_policy absent from a JSON task

\* PlannerTask; the fields the planner never reads carry fixed values.
PlannerTask(id, title, intent, tool, inputs, outs, deps, fp) ==
    [task_id |-> id, title |-> title, intent |-> intent, tool |-> tool,
     inputs |-> inputs, expected_outputs |-> outs, depends_on |-> deps,
     success_criteria |-> None, failure_policy |-> fp,
     est_duration_min |-> None]

MkTask(id, tool, deps, fp) ==
    PlannerTask(id, "title", "intent", tool, <<>>, <<"out">>, deps, fp)

-----------------------------------------------------------------------------
(* registry.py *)

ToolSpec(name, description, inputs, outputs) ==
    [name |-> name, description |-> description, inputs |-> inputs,
     outputs |-> outputs]

\* ToolRegistry._tools, a dict: a sequence of entries in insertion order.
Catalog ==
    << ToolSpec("calendar_agent.read",
                "Read calendar events and free time blocks.",
                <<"window_days">>, <<"events", "free_blocks">>),
       ToolSpec("scheduler_agent.block_plan",
                "Generate a weekly plan given events, free blocks, and preferences.",
                <<"events", "free_blocks", "prefs">>, <<"weekly_plan">>),
       ToolSpec("booking_agent.search_providers",
                "Search for providers (e.g., dentists) given insurance, location, and window.",
                <<"insurance", "location", "window_days">>, <<"provider_options">>),
       ToolSpec("booking_agent.propose",
                "Propose ranked appointment slots.",
                <<"options", "free_blocks">>, <<"ranked_slot_proposals">>),
       ToolSpec("email_agent.draft_batch",
                "Draft email replies in batch.",
                <<"inbox_filter", "tone">>, <<"drafts">>) >>

\* ToolRegistry.all_tools(): the dict itself; `in` tests its keys.
all_tools(reg) == reg

Keys(reg) == {reg[i].name : i \in DOMAIN reg}

UnknownToolName == "shell.exec"   \* a tool name absent from the catalog
ToolNames == {"calendar_agent.read", UnknownToolName}

-----------------------------------------------------------------------------
(* Input spaces *)

RECURSIVE SeqsOfLen(_, _)
SeqsOfLen(S, n) ==
    IF n = 0 THEN {<<>>}
    ELSE {Append(s, x) : s \in SeqsOfLen(S, n - 1), x \in S}

RECURSIVE EdgeCount(_)
EdgeCount(tasks) ==
    IF tasks = <<>> THEN 0
    ELSE Len(Head(tasks).depends_on) + EdgeCount(Tail(tasks))

\* The tasks a caller may append to a list: the list stays within maxTasks
\* tasks and maxEdges depends_on entries, tools come from T and failure
\* policies from F.
NextTasks(tasks, maxTasks, maxEdges, T, F) ==
    IF Len(tasks) >= maxTasks THEN {}
    ELSE UNION { {MkTask(id, tool, deps, fp) :
                    id \in IdsAt(Len(tasks) + 1), tool \in T, fp \in F,
                    deps \in SeqsOfLen(DepNames, d)} :
                 d \in 0..(maxEdges - EdgeCount(tasks)) }

-----
(* exceptions.py *)

CycleDetected == "CycleDetected"

-----------------------------------------------------------------------------
(* ordering.py *)

Reverse(s) == [i \in 1..Len(s) |-> s[Len(s) + 1 - i]]

Last(S) == CHOOSE i \in S : \A j \in S : j <= i

\* a map in which the first task with an id stays
TaskMap_KeepsFirst(tasks) ==
    [id \in {tasks[i].task_id : i \in DOMAIN tasks} |->
        tasks[CHOOSE i \in DOMAIN tasks :
                 /\ tasks[i].task_id = id
                 /\ \A j \in 1..(i - 1) : tasks[j].task_id # id]]

\* line 6: {t.task_id: t for t in tasks}; a later task replaces an earlier
\* one with the same id.
TaskMap(tasks) ==
    [id \in {tasks[i].task_id : i \in DOMAIN tasks} |->
        tasks[Last({i \in DOMAIN tasks : tasks[i].task_id = id})]]

\* lines 6-9: the frame of topological_sort before its loop.  stack holds
\* the active calls of visit (tid and the position in its depends_on);
\* entered records every temp.add, in order.
TsInit(tasks) ==
    [tasks |-> tasks, task_map |-> TaskMap(tasks), visited |-> {},
     temp |-> {}, result |-> <<>>, stack |-> <<>>, k |-> 1,
     status |-> "running", at |-> NoId, out |-> <<>>, entered |-> <<>>]

\* visit without the test of line 14
Call_NoVisitedTest(s, tid) ==
    IF tid \in s.temp
    THEN [s EXCEPT !.status = "raised", !.at = tid]
    ELSE [s EXCEPT !.temp = @ \cup {tid},
                   !.stack = Append(@, [tid |-> tid, i |-> 1]),
                   !.entered = Append(@, tid)]

\* visit raising for every id it has met before, finished or not
Call_RaisesOnVisited(s, tid) ==
    IF tid \in s.temp \cup s.visited
    THEN [s EXCEPT !.status = "raised", !.at = tid]
    ELSE [s EXCEPT !.temp = @ \cup {tid},
                   !.stack = Append(@, [tid |-> tid, i |-> 1]),
                   !.entered = Append(@, tid)]

\* lines 11-15: the call visit(tid) up to the start of its loop.
Call(s, tid) ==
    IF tid \in s.temp
    THEN [s EXCEPT !.status = "raised", !.at = tid]
    ELSE IF tid \notin s.visited
         THEN [s EXCEPT !.temp = @ \cup {tid},
                        !.stack = Append(@, [tid |-> tid, i |-> 1]),
                        !.entered = Append(@, tid)]
         ELSE s

\* lines 24-25: one iteration of `for t in tasks: visit(t.task_id)`.
LoopStep(s) == Call([s EXCEPT !.k = @ + 1], s.tasks[s.k].task_id)

\* a loop over depends_on that visits every entry, task or not
DepStep_VisitsMissing(s) ==
    LET n   == Len(s.stack)
        top == s.stack[n]
        dep == s.task_map[top.tid].depends_on[top.i]
        s1  == [s EXCEPT !.stack[n].i = @ + 1]
    IN  IF dep \notin DOMAIN s.task_map
        THEN [s1 EXCEPT !.status = "raised", !.at = dep]
        ELSE Call(s1, dep)

\* lines 16-19: one iteration of the loop over depends_on in the innermost
\* active visit.
DepStep(s) ==
    LET n   == Len(s.stack)
        top == s.stack[n]
        dep == s.task_map[top.tid].depends_on[top.i]
        s1  == [s EXCEPT !.stack[n].i = @ + 1]
    IN  IF dep \notin DOMAIN s.task_map THEN s1 ELSE Call(s1, dep)

\* a visit that finishes without taking its id out of temp
ExitStep_KeepsTemp(s) ==
    LET n   == Len(s.stack)
        tid == s.stack[n].tid
    IN  [s EXCEPT !.stack = SubSeq(@, 1, n - 1),
                  !.visited = @ \cup {tid},
                  !.result = Append(@, s.task_map[tid])]

\* lines 20-22: the innermost active visit finishes.
ExitStep(s) ==
    LET n   == Len(s.stack)
        tid == s.stack[n].tid
    IN  [s EXCEPT !.stack = SubSeq(@, 1, n - 1),
                  !.temp = @ \ {tid},
                  !.visited = @ \cup {tid},
                  !.result = Append(@, s.task_map[tid])]

\* line 27: return result[::-1]
ReturnStep(s) == [s EXCEPT !.status = "returned", !.out = Reverse(s.result)]

AtLoop(s)   == s.status = "running" /\ s.stack = <<>> /\ s.k <= Len(s.tasks)
AtReturn(s) == s.status = "running" /\ s.stack = <<>> /\ s.k > Len(s.tasks)
AtDep(s) ==
    /\ s.status = "running" /\ s.stack # <<>>
    /\ s.stack[Len(s.stack)].i
          <= Len(s.task_map[s.stack[Len(s.stack)].tid].depends_on)
AtExit(s) ==
    /\ s.status = "running" /\ s.stack # <<>>
    /\ s.stack[Len(s.stack)].i
          > Len(s.task_map[s.stack[Len(s.stack)].tid].depends_on)

TsStep(s) ==
    IF AtLoop(s) THEN LoopStep(s)
    ELSE IF AtReturn(s) THEN ReturnStep(s)
    ELSE IF AtDep(s) THEN DepStep(s)
    ELSE ExitStep(s)

RECURSIVE TsRun(_)
TsRun(s) == IF s.status # "running" THEN s ELSE TsRun(TsStep(s))

\* topological_sort(tasks): the frame when the call returns or raises.
topological_sort(tasks) == TsRun(TsInit(tasks))

-----------------------------------------------------------------------------
(* llm_planner.py *)

PlannerTaskGraph(tasks) == [tasks |-> tasks]

Raise(type, msg, detail) == [ok |-> FALSE, type |-> type, msg |-> msg, detail |-> detail]
Ok(value) == [ok |-> TRUE, value |-> value]

\* a lookup that answers an absent name with the first entry of the catalog
get_tool_Default(reg, name) ==
    IF name \in Keys(reg)
    THEN Ok(reg[CHOOSE i \in DOMAIN reg : reg[i].name = name])
    ELSE Ok(reg[1])

\* registry.py lines 35-37: cls._tools[name], a KeyError when name is no key
get_tool(reg, name) ==
    IF name \in Keys(reg)
    THEN Ok(reg[CHOOSE i \in DOMAIN reg : reg[i].name = name])
    ELSE Raise("KeyError", name, NoId)

\* sanitize_plan leaving out the tasks without a policy
sanitize_plan_DropsUnset(p) ==
    [p EXCEPT !.tasks =
        SelectSeq(p.tasks, LAMBDA t : t.failure_policy \notin Falsy)]

\* sanitize_plan writing the default over every task's policy
sanitize_plan_Overwrites(p) ==
    [p EXCEPT !.tasks =
        [i \in DOMAIN p.tasks |->
            [p.tasks[i] EXCEPT !.failure_policy = "retry"]]]

\* lines 13-17
sanitize_plan(p) ==
    [p EXCEPT !.tasks =
        [i \in DOMAIN p.tasks |->
            IF p.tasks[i].failure_policy \in Falsy
            THEN [p.tasks[i] EXCEPT !.failure_policy = "retry"]
            ELSE p.tasks[i]]]

\* The positions <<i, j>> of the depends_on entries that name no task.
DanglingAt(p) ==
    LET task_ids == {p.tasks[i].task_id : i \in DOMAIN p.tasks}
    IN  {ij \in (DOMAIN p.tasks) \X (1..EdgeCount(p.tasks)) :
            /\ ij[2] \in DOMAIN p.tasks[ij[1]].depends_on
            /\ p.tasks[ij[1]].depends_on[ij[2]] \notin task_ids}

\* The first pair of a set of pairs, in the order of the nested loops.
FirstPair(S) ==
    CHOOSE x \in S : \A y \in S : x[1] < y[1] \/ (x[1] = y[1] /\ x[2] <= y[2])

First(S) == CHOOSE i \in S : \A j \in S : i <= j

\* the loop of line 27 stopping after the first task
UnknownToolAt_FirstTaskOnly(p, reg) ==
    {i \in DOMAIN p.tasks : i = 1 /\ p.tasks[i].tool \notin Keys(all_tools(reg))}

UnknownToolAt(p, reg) ==
    {i \in DOMAIN p.tasks : p.tasks[i].tool \notin Keys(all_tools(reg))}

\* validate_plan computing the order before the other checks
validate_plan_CycleFirst(p, reg) ==
    LET r == topological_sort(p.tasks)
    IN  IF r.status = "raised"
        THEN Raise(CycleDetected, "Cycle detected at", r.at)
        ELSE IF DanglingAt(p) # {}
        THEN LET ij == FirstPair(DanglingAt(p))
             IN  Raise("ValueError", "depends_on references missing task_id",
                       p.tasks[ij[1]].depends_on[ij[2]])
        ELSE IF UnknownToolAt(p, reg) # {}
        THEN Raise("ValueError", "Unknown tool",
                   p.tasks[First(UnknownToolAt(p, reg))].tool)
        ELSE IF ~ \E i \in DOMAIN p.tasks : p.tasks[i].depends_on # <<>>
        THEN Raise("ValueError", "No dependencies between tasks", NoId)
        ELSE Ok(p)

\* validate_plan without the check of lines 30-32
validate_plan_NoDependencyCheck(p, reg) ==
    IF DanglingAt(p) # {}
    THEN LET ij == FirstPair(DanglingAt(p))
         IN  Raise("ValueError", "depends_on references missing task_id",
                   p.tasks[ij[1]].depends_on[ij[2]])
    ELSE IF UnknownToolAt(p, reg) # {}
    THEN Raise("ValueError", "Unknown tool",
               p.tasks[First(UnknownToolAt(p, reg))].tool)
    ELSE LET r == topological_sort(p.tasks)
         IN  IF r.status = "raised"
             THEN Raise(CycleDetected, "Cycle detected at", r.at)
             ELSE Ok(p)

\* validate_plan consuming the depends_on lists of the graph it accepts
validate_plan_ClearsDependencies(p, reg) ==
    IF DanglingAt(p) # {}
    THEN LET ij == FirstPair(DanglingAt(p))
         IN  Raise("ValueError", "depends_on references missing task_id",
                   p.tasks[ij[1]].depends_on[ij[2]])
    ELSE IF UnknownToolAt(p, reg) # {}
    THEN Raise("ValueError", "Unknown tool",
               p.tasks[First(UnknownToolAt(p, reg))].tool)
    ELSE IF ~ \E i \in DOMAIN p.tasks : p.tasks[i].depends_on # <<>>
    THEN Raise("ValueError", "No dependencies between tasks", NoId)
    ELSE LET r == topological_sort(p.tasks)
         IN  IF r.status = "raised"
             THEN Raise(CycleDetected, "Cycle detected at", r.at)
             ELSE Ok(PlannerTaskGraph(
                     [i \in DOMAIN p.tasks |->
                         [p.tasks[i] EXCEPT !.depends_on = <<>>]]))

\* validate_plan returning the graph in the order topological_sort gives
validate_plan_ReturnsSorted(p, reg) ==
    IF DanglingAt(p) # {}
    THEN LET ij == FirstPair(DanglingAt(p))
         IN  Raise("ValueError", "depends_on references missing task_id",
                   p.tasks[ij[1]].depends_on[ij[2]])
    ELSE IF UnknownToolAt(p, reg) # {}
    THEN Raise("ValueError", "Unknown tool",
               p.tasks[First(UnknownToolAt(p, reg))].tool)
    ELSE IF ~ \E i \in DOMAIN p.tasks : p.tasks[i].depends_on # <<>>
    THEN Raise("ValueError", "No dependencies between tasks", NoId)
    ELSE LET r == topological_sort(p.tasks)
         IN  IF r.status = "raised"
             THEN Raise(CycleDetected, "Cycle detected at", r.at)
             ELSE Ok(PlannerTaskGraph(r.out))

\* validate_plan with the checks of lines 20-25 and 26-29 exchanged
validate_plan_ToolsFirst(p, reg) ==
    IF UnknownToolAt(p, reg) # {}
    THEN Raise("ValueError", "Unknown tool",
               p.tasks[First(UnknownToolAt(p, reg))].tool)
    ELSE IF DanglingAt(p) # {}
    THEN LET ij == FirstPair(DanglingAt(p))
         IN  Raise("ValueError", "depends_on references missing task_id",
                   p.tasks[ij[1]].depends_on[ij[2]])
    ELSE IF ~ \E i \in DOMAIN p.tasks : p.tasks[i].depends_on # <<>>
    THEN Raise("ValueError", "No dependencies between tasks", NoId)
    ELSE LET r == topological_sort(p.tasks)
         IN  IF r.status = "raised"
             THEN Raise(CycleDetected, "Cycle detected at", r.at)
             ELSE Ok(p)

\* lines 19-35: validate_plan(plan), reading the registry as it is now.
validate_plan(p, reg) ==
    IF DanglingAt(p) # {}
    THEN LET ij == FirstPair(DanglingAt(p))
         IN  Raise("ValueError", "depends_on references missing task_id",
                   p.tasks[ij[1]].depends_on[ij[2]])
    ELSE IF UnknownToolAt(p, reg) # {}
    THEN Raise("ValueError", "Unknown tool",
               p.tasks[First(UnknownToolAt(p, reg))].tool)
    ELSE IF ~ \E i \in DOMAIN p.tasks : p.tasks[i].depends_on # <<>>
    THEN Raise("ValueError", "No dependencies between tasks", NoId)
    ELSE LET r == topological_sort(p.tasks)
         IN  IF r.status = "raised"
             THEN Raise(CycleDetected, "Cycle detected at", r.at)
             ELSE Ok(p)

\* fallback_plan putting the goal into the title of the first task
fallback_plan_GoalInTitle(g, c) ==
    PlannerTaskGraph(<<
        PlannerTask("t1", g,
                    "Get all events and free time blocks for the week",
                    "calendar_agent.read", <<"window_days">>,
                    <<"events", "free_blocks">>, <<>>, "retry"),
        PlannerTask("t2", "Book dentist appointment",
                    "Find and propose dentist appointments",
                    "booking_agent.search_providers",
                    <<"insurance", "location", "window_days">>,
                    <<"provider_options">>, <<"t1">>, "retry"),
        PlannerTask("t3", "Draft email replies",
                    "Draft replies to important emails",
                    "email_agent.draft_batch", <<"inbox_filter", "tone">>,
                    <<"drafts">>, <<"t1">>, "retry") >>)

\* fallback_plan with no task depending on another
fallback_plan_Unordered(g, c) ==
    PlannerTaskGraph(<<
        PlannerTask("t1", "Read calendar for the week",
                    "Get all events and free time blocks for the week",
                    "calendar_agent.read", <<"window_days">>,
                    <<"events", "free_blocks">>, <<>>, "retry"),
        PlannerTask("t2", "Book dentist appointment",
                    "Find and propose dentist appointments",
                    "booking_agent.search_providers",
                    <<"insurance", "location", "window_days">>,
                    <<"provider_options">>, <<>>, "retry"),
        PlannerTask("t3", "Draft email replies",
                    "Draft replies to important emails",
                    "email_agent.draft_batch", <<"inbox_filter", "tone">>,
                    <<"drafts">>, <<>>, "retry") >>)

\* fallback_plan with t3 chained after t2
fallback_plan_Chained(g, c) ==
    PlannerTaskGraph(<<
        PlannerTask("t1", "Read calendar for the week",
                    "Get all events and free time blocks for the week",
                    "calendar_agent.read", <<"window_days">>,
                    <<"events", "free_blocks">>, <<>>, "retry"),
        PlannerTask("t2", "Book dentist appointment",
                    "Find and propose dentist appointments",
                    "booking_agent.search_providers",
                    <<"insurance", "location", "window_days">>,
                    <<"provider_options">>, <<"t1">>, "retry"),
        PlannerTask("t3", "Draft email replies",
                    "Draft replies to important emails",
                    "email_agent.draft_batch", <<"inbox_filter", "tone">>,
                    <<"drafts">>, <<"t2">>, "retry") >>)

\* lines 37-66
fallback_plan(g, c) ==
    PlannerTaskGraph(<<
        PlannerTask("t1", "Read calendar for the week",
                    "Get all events and free time blocks for the week",
                    "calendar_agent.read", <<"window_days">>,
                    <<"events", "free_blocks">>, <<>>, "retry"),
        PlannerTask("t2", "Book dentist appointment",
                    "Find and propose dentist appointments",
                    "booking_agent.search_providers",
                    <<"insurance", "location", "window_days">>,
                    <<"provider_options">>, <<"t1">>, "retry"),
        PlannerTask("t3", "Draft email replies",
                    "Draft replies to important emails",
                    "email_agent.draft_batch", <<"inbox_filter", "tone">>,
                    <<"drafts">>, <<"t1">>, "retry") >>)

-----------------------------------------------------------------------------
\* json.loads(raw), line 81
json_loads(r) ==
    IF r.kind = "text"
    THEN Raise("JSONDecodeError", "Expecting value", NoId)
    ELSE Ok(r)

\* PlannerTaskGraph(**plan_dict), line 82: pydantic builds the tasks, fills
\* the default of an absent failure_policy (schema.py line 13) and rejects
\* a value outside the Literal.
ParseGraph(doc) ==
    IF doc.kind = "list"
    THEN Raise("TypeError", "argument after ** must be a mapping", NoId)
    ELSE IF doc.kind = "object"
    THEN Raise("ValidationError", "tasks: field required", NoId)
    ELSE IF \E i \in DOMAIN doc.tasks :
               doc.tasks[i].failure_policy \notin FailurePolicies \cup {Missing}
    THEN Raise("ValidationError", "failure_policy: unexpected value", NoId)
    ELSE Ok(PlannerTaskGraph(
               [i \in DOMAIN doc.tasks |->
                   IF doc.tasks[i].failure_policy = Missing
                   THEN [doc.tasks[i] EXCEPT !.failure_policy = "retry"]
                   ELSE doc.tasks[i]]))

\* a handler `except ValueError`
Caught_ValueErrorOnly(type) ==
    type \in {"ValueError", "JSONDecodeError", "ValidationError"}

\* line 86: `except Exception` catches every exception class that derives
\* from Exception.
Caught(type) ==
    type \in {"NotImplementedError", "TimeoutError", "JSONDecodeError",
              "TypeError", "ValidationError", "ValueError", CycleDetected}

\* lines 70-76: the prompt, as its parts in order.
ComposePrompt(reg, g, c) ==
    [i \in DOMAIN all_tools(reg) |->
        <<all_tools(reg)[i].name, all_tools(reg)[i].description>>]
    \o <<<<"Goal", g>>>>
    \o (IF c # None THEN <<<<"Context", c.key>>>> ELSE <<>>)

-----------------------------------------------------------------------------
(* Callers *)

Idle == [status |-> "idle"]
NotCalled == [called |-> FALSE]

\* a planner_engine call that has not been made
NoFrame == [pc |-> "idle"]

\* lines 9-11: the llm_complete of the repository
Stub == [kind |-> "raise", type |-> "NotImplementedError"]

LibInit ==
    /\ registry = Catalog
    /\ arg = <<>>
    /\ ts = Idle
    /\ vres = NotCalled
    /\ llm = Stub
    /\ pc = "idle" /\ goal = None /\ context = None /\ prompt = None
    /\ raw = None /\ plan = None /\ err = None /\ ret = None
    /\ escaped = None
    /\ vres2 = NotCalled
    /\ sres = NotCalled
    /\ lookups = <<>>
    /\ other = NoFrame

Goals == {"Plan my week", "Book dentist"}
Contexts == {None, [key |-> "tz"]}

\* A caller appends a task to the list it is assembling.
Build(maxTasks, maxEdges, T) ==
    /\ ts = Idle /\ vres = NotCalled /\ pc = "idle"
    /\ \E t \in NextTasks(arg, maxTasks, maxEdges, T, {"retry"}) :
          arg' = Append(arg, t)
    /\ UNCHANGED <<auxVars, registry, ts, vres, engineVars>>

\* A caller takes the task list of the fallback graph.
TakeFallback ==
    /\ ts = Idle /\ vres = NotCalled /\ pc = "idle" /\ arg = <<>>
    /\ \E g \in Goals, c \in Contexts : arg' = fallback_plan(g, c).tasks
    /\ UNCHANGED <<auxVars, registry, ts, vres, engineVars>>

-----------------------------------------------------------------------------
(* A call topological_sort(arg), step by step *)

SortBuild == Build(MaxTasks, MaxEdges, {"calendar_agent.read"})

SortCall ==
    /\ ts = Idle
    /\ ts' = TsInit(arg)
    /\ UNCHANGED <<auxVars, registry, arg, vres, engineVars>>

SortLoop ==
    /\ AtLoop(ts)
    /\ ts' = LoopStep(ts)
    /\ UNCHANGED <<auxVars, registry, arg, vres, engineVars>>

SortDep ==
    /\ AtDep(ts)
    /\ ts' = DepStep(ts)
    /\ UNCHANGED <<auxVars, registry, arg, vres, engineVars>>

SortExit ==
    /\ AtExit(ts)
    /\ ts' = ExitStep(ts)
    /\ UNCHANGED <<auxVars, registry, arg, vres, engineVars>>

SortReturn ==
    /\ AtReturn(ts)
    /\ ts' = ReturnStep(ts)
    /\ UNCHANGED <<auxVars, registry, arg, vres, engineVars>>

SortRun == SortLoop \/ SortDep \/ SortExit \/ SortReturn

SortNext == SortBuild \/ TakeFallback \/ SortCall \/ SortRun

SortSpec == LibInit /\ [][SortNext]_vars

FairSortBuild == Build(LiveMaxTasks, LiveMaxEdges, {"calendar_agent.read"})

FairSortNext == FairSortBuild \/ SortCall \/ SortRun

\* The interpreter runs a started call to its end: an enabled step of the
\* call is taken.
FairSortSpec == LibInit /\ [][FairSortNext]_vars /\ WF_vars(SortRun)

-----------------------------------------------------------------------------
(* Calls of ToolRegistry.get_tool and ToolRegistry.all_tools *)

LookupNames == Keys(Catalog) \cup {UnknownToolName}

GetToolCall ==
    /\ Len(lookups) < MaxLookups
    /\ \E name \in LookupNames :
          lookups' = Append(lookups, [op |-> "get_tool", name |-> name,
                                      result |-> get_tool(registry, name)])
    /\ UNCHANGED <<registry, arg, ts, vres, engineVars, vres2, sres, other>>

AllToolsCall ==
    /\ Len(lookups) < MaxLookups
    /\ lookups' = Append(lookups, [op |-> "all_tools", name |-> NoId,
                                   result |-> Ok(all_tools(registry))])
    /\ UNCHANGED <<registry, arg, ts, vres, engineVars, vres2, sres, other>>

RegistryNext == GetToolCall \/ AllToolsCall

RegistrySpec == LibInit /\ [][RegistryNext]_vars

-----------------------------------------------------------------------------
(* A call sanitize_plan(PlannerTaskGraph(arg)) *)

\* A caller appends a task whose failure_policy it has set to one of the
\* three policies, to None or to the empty string.
SanitizeBuild ==
    /\ ts = Idle /\ vres = NotCalled /\ pc = "idle" /\ sres = NotCalled
    /\ \E t \in NextTasks(arg, SanMaxTasks, SanMaxEdges,
                          {"calendar_agent.read"}, FailurePolicies \cup Falsy) :
          arg' = Append(arg, t)
    /\ UNCHANGED <<registry, ts, vres, engineVars, vres2, sres, lookups, other>>

\* sanitize_plan assigns to the tasks of the graph it is given and returns
\* that graph.
SanitizeCall ==
    /\ sres = NotCalled
    /\ LET given == PlannerTaskGraph(arg)
           value == sanitize_plan(given)
       IN  /\ sres' = [given |-> given, value |-> value]
           /\ arg' = value.tasks
    /\ UNCHANGED <<registry, ts, vres, engineVars, vres2, lookups, other>>

SanitizeNext == SanitizeBuild \/ SanitizeCall

SanitizeSpec == LibInit /\ [][SanitizeNext]_vars

-----------------------------------------------------------------------------
(* A call validate_plan(PlannerTaskGraph(arg)) *)

ValidateBuild == Build(ValMaxTasks, ValMaxEdges, ToolNames)

\* validate_plan adding an entry to the catalog for a tool it does not know
ValidateCall_RegistersTools ==
    /\ vres = NotCalled
    /\ vres' = validate_plan(PlannerTaskGraph(arg), registry)
    /\ registry' =
          IF UnknownToolAt(PlannerTaskGraph(arg), registry) # {}
          THEN Append(registry, ToolSpec(UnknownToolName, "", <<>>, <<>>))
          ELSE registry
    /\ UNCHANGED <<auxVars, arg, ts, engineVars>>

ValidateCall ==
    /\ vres = NotCalled
    /\ vres' = validate_plan(PlannerTaskGraph(arg), registry)
    /\ UNCHANGED <<auxVars, registry, arg, ts, engineVars>>

\* The caller hands the graph validate_plan returned to validate_plan again.
ValidateAgain ==
    /\ vres # NotCalled /\ vres.ok
    /\ vres2 = NotCalled
    /\ vres2' = validate_plan(vres.value, registry)
    /\ UNCHANGED <<registry, arg, ts, vres, engineVars, sres, lookups, other>>

ValidateNext == ValidateBuild \/ TakeFallback \/ ValidateCall \/ ValidateAgain

ValidateSpec == LibInit /\ [][ValidateNext]_vars

-----------------------------------------------------------------------------
(* planner_engine(goal, context), lines 68-88, step by step *)


RawPolicies == {Missing, "skip", "bogus"}

\* The completion service is replaced by one that raises another error or
\* returns some text.
LlmPatch ==
    /\ pc = "idle" /\ llm = Stub
    /\ llm' \in {[kind |-> "raise", type |-> "TimeoutError"],
                 [kind |-> "text"], [kind |-> "list"], [kind |-> "object"],
                 [kind |-> "graph", tasks |-> <<>>]}
    /\ UNCHANGED <<auxVars, registry, arg, ts, vres, pc, goal, context, prompt, raw,
                   plan, err, ret, escaped>>

\* The JSON graph the completion service will return gets one more task.
LlmAddTask ==
    /\ pc = "idle" /\ llm.kind = "graph"
    /\ \E t \in NextTasks(llm.tasks, PlanMaxTasks, PlanMaxEdges, ToolNames,
                          RawPolicies) :
          llm' = [llm EXCEPT !.tasks = Append(@, t)]
    /\ UNCHANGED <<auxVars, registry, arg, ts, vres, pc, goal, context, prompt, raw,
                   plan, err, ret, escaped>>

\* planner_engine removing the first entry from the dict all_tools returns
PlanCall_WritesRegistry ==
    /\ pc = "idle"
    /\ \E g \in Goals, c \in Contexts :
          /\ goal' = g
          /\ context' = c
          /\ prompt' = ComposePrompt(registry, g, c)
    /\ pc' = "complete"
    /\ registry' = IF registry = <<>> THEN registry ELSE Tail(registry)
    /\ UNCHANGED <<auxVars, arg, ts, vres, llm, raw, plan, err, ret, escaped>>

\* lines 68-76
PlanCall ==
    /\ pc = "idle"
    /\ \E g \in Goals, c \in Contexts :
          /\ goal' = g
          /\ context' = c
          /\ prompt' = ComposePrompt(registry, g, c)
    /\ pc' = "complete"
    /\ UNCHANGED <<auxVars, registry, arg, ts, vres, llm, raw, plan, err, ret, escaped>>

\* line 79
PlanComplete ==
    /\ pc = "complete"
    /\ IF llm.kind = "raise"
       THEN /\ err' = Raise(llm.type, "", NoId)
            /\ pc' = "except"
            /\ raw' = raw
       ELSE /\ raw' = llm
            /\ pc' = "parse"
            /\ err' = err
    /\ UNCHANGED <<auxVars, registry, arg, ts, vres, llm, goal, context, prompt, plan,
                   ret, escaped>>

\* lines 81-82
PlanParse ==
    /\ pc = "parse"
    /\ LET doc == json_loads(raw)
           g   == ParseGraph(doc.value)
       IN  IF ~doc.ok
           THEN err' = doc /\ pc' = "except" /\ plan' = plan
           ELSE IF ~g.ok
           THEN err' = g /\ pc' = "except" /\ plan' = plan
           ELSE plan' = g.value /\ pc' = "sanitize" /\ err' = err
    /\ UNCHANGED <<auxVars, registry, arg, ts, vres, llm, goal, context, prompt, raw,
                   ret, escaped>>

\* line 83
PlanSanitize ==
    /\ pc = "sanitize"
    /\ plan' = sanitize_plan(plan)
    /\ pc' = "validate"
    /\ UNCHANGED <<auxVars, registry, arg, ts, vres, llm, goal, context, prompt, raw,
                   err, ret, escaped>>

\* planner_engine going on with the tasks in the order topological_sort gives
PlanValidate_KeepsSortOrder ==
    /\ pc = "validate"
    /\ LET r == validate_plan(plan, registry)
       IN  IF r.ok
           THEN /\ plan' = PlannerTaskGraph(topological_sort(plan.tasks).out)
                /\ pc' = "return" /\ err' = err
           ELSE err' = r /\ pc' = "except" /\ plan' = plan
    /\ UNCHANGED <<auxVars, registry, arg, ts, vres, llm, goal, context, prompt, raw,
                   ret, escaped>>

\* line 84
PlanValidate ==
    /\ pc = "validate"
    /\ LET r == validate_plan(plan, registry)
       IN  IF r.ok
           THEN plan' = r.value /\ pc' = "return" /\ err' = err
           ELSE err' = r /\ pc' = "except" /\ plan' = plan
    /\ UNCHANGED <<auxVars, registry, arg, ts, vres, llm, goal, context, prompt, raw,
                   ret, escaped>>

\* line 85
PlanReturn ==
    /\ pc = "return"
    /\ ret' = plan
    /\ pc' = "done"
    /\ UNCHANGED <<auxVars, registry, arg, ts, vres, llm, goal, context, prompt, raw,
                   plan, err, escaped>>

\* a handler that calls the completion again after a timeout
PlanExcept_Retries ==
    /\ pc = "except"
    /\ IF err.type = "TimeoutError"
       THEN ret' = ret /\ pc' = "complete" /\ escaped' = escaped
       ELSE IF Caught(err.type)
       THEN ret' = fallback_plan(goal, context) /\ pc' = "done"
            /\ escaped' = escaped
       ELSE escaped' = err /\ pc' = "raised" /\ ret' = ret
    /\ UNCHANGED <<auxVars, registry, arg, ts, vres, llm, goal, context, prompt, raw,
                   plan, err>>

\* lines 86-88
PlanExcept ==
    /\ pc = "except"
    /\ IF Caught(err.type)
       THEN ret' = fallback_plan(goal, context) /\ pc' = "done"
            /\ escaped' = escaped
       ELSE escaped' = err /\ pc' = "raised" /\ ret' = ret
    /\ UNCHANGED <<auxVars, registry, arg, ts, vres, llm, goal, context, prompt, raw,
                   plan, err>>

\* The caller has the result; the frame of the call is gone.
PlanDone ==
    /\ pc = "done"
    /\ pc' = "idle"
    /\ goal' = None /\ context' = None /\ prompt' = None /\ raw' = None
    /\ plan' = None /\ err' = None /\ ret' = None
    /\ UNCHANGED <<auxVars, registry, arg, ts, vres, llm, escaped>>

Next ==
    \/ LlmPatch \/ LlmAddTask
    \/ PlanCall \/ PlanComplete \/ PlanParse \/ PlanSanitize \/ PlanValidate
    \/ PlanReturn \/ PlanExcept \/ PlanDone

Spec == LibInit /\ [][Next]_vars

-----------------------------------------------------------------------------
(* A second planner_engine call, running while the first one does *)

notOther == <<registry, arg, ts, vres, engineVars, vres2, sres, lookups>>

\* The JSON graph the completion service will return gets one more task.
ConcAddTask ==
    /\ pc = "idle" /\ llm.kind = "graph"
    /\ \E t \in NextTasks(llm.tasks, ConcMaxTasks, ConcMaxEdges,
                          {"calendar_agent.read"}, {Missing}) :
          llm' = [llm EXCEPT !.tasks = Append(@, t)]
    /\ UNCHANGED <<auxVars, registry, arg, ts, vres, pc, goal, context, prompt,
                   raw, plan, err, ret, escaped>>

\* lines 68-76
OtherCall ==
    /\ other.pc = "idle"
    /\ \E g \in Goals, c \in Contexts :
          other' = [pc |-> "complete", goal |-> g, context |-> c,
                    prompt |-> ComposePrompt(registry, g, c),
                    raw |-> None, plan |-> None, err |-> None, ret |-> None,
                    escaped |-> None]
    /\ UNCHANGED notOther

\* line 79
OtherComplete ==
    /\ other.pc = "complete"
    /\ other' = IF llm.kind = "raise"
                THEN [other EXCEPT !.err = Raise(llm.type, "", NoId),
                                   !.pc = "except"]
                ELSE [other EXCEPT !.raw = llm, !.pc = "parse"]
    /\ UNCHANGED notOther

\* lines 81-82
OtherParse ==
    /\ other.pc = "parse"
    /\ LET doc == json_loads(other.raw)
           g   == ParseGraph(doc.value)
       IN  other' = IF ~doc.ok
                    THEN [other EXCEPT !.err = doc, !.pc = "except"]
                    ELSE IF ~g.ok
                    THEN [other EXCEPT !.err = g, !.pc = "except"]
                    ELSE [other EXCEPT !.plan = g.value, !.pc = "sanitize"]
    /\ UNCHANGED notOther

\* line 83
OtherSanitize ==
    /\ other.pc = "sanitize"
    /\ other' = [other EXCEPT !.plan = sanitize_plan(@), !.pc = "validate"]
    /\ UNCHANGED notOther

\* line 84
OtherValidate ==
    /\ other.pc = "validate"
    /\ LET r == validate_plan(other.plan, registry)
       IN  other' = IF r.ok
                    THEN [other EXCEPT !.plan = r.value, !.pc = "return"]
                    ELSE [other EXCEPT !.err = r, !.pc = "except"]
    /\ UNCHANGED notOther

\* line 85
OtherReturn ==
    /\ other.pc = "return"
    /\ other' = [other EXCEPT !.ret = other.plan, !.pc = "done"]
    /\ UNCHANGED notOther

\* lines 86-88
OtherExcept ==
    /\ other.pc = "except"
    /\ other' = IF Caught(other.err.type)
                THEN [other EXCEPT
                         !.ret = fallback_plan(other.goal, other.context),
                         !.pc = "done"]
                ELSE [other EXCEPT !.escaped = other.err, !.pc = "raised"]
    /\ UNCHANGED notOther

OtherStep ==
    \/ OtherCall \/ OtherComplete \/ OtherParse \/ OtherSanitize
    \/ OtherValidate \/ OtherReturn \/ OtherExcept

ConcNext ==
    \/ LlmPatch \/ ConcAddTask
    \/ PlanCall \/ PlanComplete \/ PlanParse \/ PlanSanitize \/ PlanValidate
    \/ PlanReturn \/ PlanExcept \/ PlanDone
    \/ OtherStep

ConcSpec == LibInit /\ [][ConcNext]_vars

-----------------------------------------------------------------------------
(* One caller using every operation of the planner *)

\* No operation on arg has been started.
Unused ==
    ts = Idle /\ vres = NotCalled /\ sres = NotCalled /\ pc = "idle"

UseLookup == /\ Unused /\ arg = <<>> /\ llm = Stub
             /\ (GetToolCall \/ AllToolsCall)

UseBuild == /\ sres = NotCalled /\ lookups = <<>> /\ llm = Stub
            /\ Build(UseMaxTasks, UseMaxEdges, ToolNames)

\* The completion service is replaced by one that returns the graph of arg.
UsePatch ==
    /\ Unused /\ llm = Stub /\ lookups = <<>>
    /\ llm' = [kind |-> "graph", tasks |-> arg]
    /\ UNCHANGED <<auxVars, registry, arg, ts, vres, pc, goal, context, prompt,
                   raw, plan, err, ret, escaped>>

UsePlan ==
    /\ ts = Idle /\ vres = NotCalled /\ sres = NotCalled /\ lookups = <<>>
    /\ \/ PlanCall \/ PlanComplete \/ PlanParse \/ PlanSanitize \/ PlanValidate
       \/ PlanReturn \/ PlanExcept \/ PlanDone

UseLibrary ==
    /\ pc = "idle" /\ lookups = <<>>
    /\ \/ SortCall \/ SortRun \/ ValidateCall \/ ValidateAgain \/ SanitizeCall

UseNext == UseLookup \/ UseBuild \/ UsePatch \/ UsePlan \/ UseLibrary

UseSpec == LibInit /\ [][UseNext]_vars

-----------------------------------------------------------------------------
(* The TaskGraph invariants of the data model, stated on a task list *)

TaskIds(tasks) == {tasks[i].task_id : i \in DOMAIN tasks}

UniqueIds(tasks) ==
    \A i, j \in DOMAIN tasks : i # j => tasks[i].task_id # tasks[j].task_id

HasDangling(tasks) ==
    \E i \in DOMAIN tasks : \E j \in DOMAIN tasks[i].depends_on :
        tasks[i].depends_on[j] \notin TaskIds(tasks)

HasUnknownTool(tasks, reg) ==
    \E i \in DOMAIN tasks : \A k \in DOMAIN reg : reg[k].name # tasks[i].tool

HasDependency(tasks) == \E i \in DOMAIN tasks : Len(tasks[i].depends_on) > 0

\* The edges task -> dep between ids of the list.
DepEdges(tasks) ==
    {e \in TaskIds(tasks) \X TaskIds(tasks) :
        \E i \in DOMAIN tasks :
            /\ tasks[i].task_id = e[1]
            /\ \E j \in DOMAIN tasks[i].depends_on : tasks[i].depends_on[j] = e[2]}

RECURSIVE Closure(_)
Closure(R) ==
    LET R2 == R \cup {<<q[1][1], q[2][2]>> :
                        q \in {x \in R \X R : x[1][2] = x[2][1]}}
    IN  IF R2 = R THEN R ELSE Closure(R2)

HasCycle(tasks) ==
    \E x \in TaskIds(tasks) : <<x, x>> \in Closure(DepEdges(tasks))

ValidGraph(tasks, reg) ==
    /\ UniqueIds(tasks)
    /\ ~HasDangling(tasks)
    /\ ~HasUnknownTool(tasks, reg)
    /\ ~HasCycle(tasks)
    /\ HasDependency(tasks)

Count(seq, x) == Cardinality({i \in DOMAIN seq : seq[i] = x})

IsPermutation(out, tasks) ==
    /\ Len(out) = Len(tasks)
    /\ \A i \in DOMAIN tasks : Count(out, tasks[i]) = Count(tasks, tasks[i])

\* Every task of out stands after the tasks of the list it depends on.
DependenciesFirst(out, tasks) ==
    \A p \in DOMAIN out : \A j \in DOMAIN out[p].depends_on :
        out[p].depends_on[j] \in TaskIds(tasks)
            => \E q \in 1..(p - 1) : out[q].task_id = out[p].depends_on[j]

-----------------------------------------------------------------------------
(* Claims *)

\* C1: planner_engine never raises: whatever the completion call does (it
\* raises, returns text that is no JSON, JSON that is no graph, a graph that
\* fails validation, or a valid graph), no exception leaves the call and what
\* it returns is a TaskGraph.
C1_PlanNeverRaises ==
    /\ escaped = None
    /\ pc # "raised"
    /\ pc = "done" => ret # None /\ DOMAIN ret = {"tasks"}

\* A call whose validation raised CycleDetected has returned.
C1_Witness ==
    /\ pc = "done" /\ ret # None
    /\ err # None /\ err.type = CycleDetected

\* C2: every graph planner_engine returns, from the completion or the
\* fallback, satisfies all five TaskGraph invariants: unique task_ids, no
\* dangling depends_on entry, registered tools, no cycle, some dependency.
C2_PlanReturnsValidGraph ==
    pc = "done" => ValidGraph(ret.tasks, registry)

\* C3: when a step of the try block fails, planner_engine returns exactly the
\* fixed fallback: t1, t2, t3 in this order, t1 without dependencies on
\* calendar_agent.read, t2 after t1 on booking_agent.search_providers, t3
\* after t1 on email_agent.draft_batch.
C3_FailureGivesFallback ==
    pc = "done" /\ err # None =>
        /\ Len(ret.tasks) = 3
        /\ [i \in 1..3 |-> ret.tasks[i].task_id] = <<"t1", "t2", "t3">>
        /\ [i \in 1..3 |-> ret.tasks[i].depends_on] = <<<<>>, <<"t1">>, <<"t1">>>>
        /\ [i \in 1..3 |-> ret.tasks[i].tool] =
              <<"calendar_agent.read", "booking_agent.search_providers",
                "email_agent.draft_batch">>

\* A call whose parsed graph named an unknown tool has returned.
C3_Witness ==
    /\ pc = "done" /\ ret # None
    /\ err # None /\ err.msg = "Unknown tool"

\* C4: for an acyclic task list, topological_sort returns the tasks
\* dependencies first: every task stands after each task of the list that
\* its depends_on names.
C4_DependenciesFirst ==
    ts.status = "returned" /\ ~HasCycle(ts.tasks)
        => DependenciesFirst(ts.out, ts.tasks)

\* C5: for a graph validate_plan accepts, topological_sort returns a
\* permutation of the task list: every task once, none missing.
C5_SortReturnsEveryTaskOnce ==
    /\ ts.status = "returned"
    /\ validate_plan(PlannerTaskGraph(ts.tasks), registry).ok
    => IsPermutation(ts.out, ts.tasks)

EnteredOnce ==
    ts.status # "idle" =>
        \A i, j \in DOMAIN ts.entered : i # j => ts.entered[i] # ts.entered[j]

\* C6: a started topological_sort ends, by returning or by raising
\* CycleDetected, on every task list (cycles, self-dependencies, shared
\* dependencies and dangling references included), and no task id is entered
\* for traversal twice.
C6_SortTerminates ==
    /\ (ts.status = "running") ~> (ts.status \in {"returned", "raised"})
    /\ []EnteredOnce

\* A call has returned on a list of three tasks in which two tasks share a
\* dependency, reached a second time when it is already done.
C6_Witness ==
    /\ ts.status = "returned" /\ Len(ts.tasks) = 3
    /\ Len(ts.entered) = 3
    /\ \E i, j \in DOMAIN ts.tasks :
          /\ i # j /\ ts.tasks[i].task_id # ts.tasks[j].task_id
          /\ \E d \in TaskIds(ts.tasks) \ {ts.tasks[i].task_id, ts.tasks[j].task_id} :
                /\ \E m \in DOMAIN ts.tasks[i].depends_on : ts.tasks[i].depends_on[m] = d
                /\ \E m \in DOMAIN ts.tasks[j].depends_on : ts.tasks[j].depends_on[m] = d

\* C7: topological_sort never returns a sequence for a task list whose
\* dependency relation among the tasks present has a cycle.
C7_CycleNeverReturns ==
    ts.status = "returned" => ~HasCycle(ts.tasks)

\* C8: validate_plan accepts exactly the graphs that satisfy the five
\* TaskGraph invariants; in particular it rejects two tasks sharing a task_id.
C8_ValidateEnforcesInvariants ==
    vres # NotCalled => (vres.ok <=> ValidGraph(arg, registry))

\* C9: validate_plan rejects with the dangling-dependency error every graph
\* in which a depends_on entry is no task_id of the graph.
C9_DanglingRejected ==
    vres # NotCalled /\ HasDangling(arg) =>
        /\ ~vres.ok
        /\ vres.type = "ValueError"
        /\ vres.msg = "depends_on references missing task_id"
        /\ \E i \in DOMAIN arg : \E j \in DOMAIN arg[i].depends_on :
              vres.detail = arg[i].depends_on[j] /\ vres.detail \notin TaskIds(arg)

\* validate_plan was called on a graph with a dangling entry, an unknown tool
\* and a cycle.
C9_Witness ==
    /\ vres # NotCalled
    /\ HasDangling(arg) /\ HasUnknownTool(arg, registry) /\ HasCycle(arg)

\* C10: validate_plan rejects every graph in which a task's tool is no key of
\* the registry, whatever the rest of the graph is.
C10_UnknownToolRejected ==
    vres # NotCalled /\ HasUnknownTool(arg, registry) => ~vres.ok

\* validate_plan was called on an otherwise valid graph whose last task alone
\* names an unknown tool.
C10_Witness ==
    /\ vres # NotCalled /\ Len(arg) = 3
    /\ ValidGraph(SubSeq(arg, 1, 2), registry)
    /\ UniqueIds(arg) /\ ~HasDangling(arg) /\ ~HasCycle(arg)
    /\ HasUnknownTool(arg, registry)
    /\ ~vres.ok /\ vres.msg = "Unknown tool"

\* C11: validate_plan rejects with the no-dependency error every graph whose
\* tasks all have an empty depends_on and a registered tool, the graph of one
\* task and the graph of no task included.
C11_NoDependencyRejected ==
    vres # NotCalled /\ ~HasDependency(arg) /\ ~HasUnknownTool(arg, registry) =>
        /\ ~vres.ok
        /\ vres.type = "ValueError"
        /\ vres.msg = "No dependencies between tasks"

\* validate_plan was called on the graph without tasks.
C11_Witness ==
    vres # NotCalled /\ arg = <<>> /\ ~vres.ok

\* C12: validate_plan rejects with CycleDetected every graph that passes the
\* dangling, tool and no-dependency checks and whose dependency relation has
\* a cycle.
C12_CycleRejected ==
    /\ vres # NotCalled
    /\ ~HasDangling(arg) /\ ~HasUnknownTool(arg, registry) /\ HasDependency(arg)
    /\ HasCycle(arg)
    => ~vres.ok /\ vres.type = CycleDetected

\* C13: a validate_plan call leaves the graph it is given as it was, whether
\* it succeeds or fails, and on success returns that graph: the same tasks in
\* the same order with every field unchanged.
C13_ValidateLeavesGraph ==
    [][vres = NotCalled /\ vres' # NotCalled =>
          /\ arg' = arg
          /\ vres'.ok => vres'.value = PlannerTaskGraph(arg)]_vars

\* validate_plan accepted a graph whose tasks are not listed in the order
\* topological_sort gives them.
C13_Witness ==
    /\ vres # NotCalled /\ vres.ok
    /\ vres.value.tasks = arg
    /\ topological_sort(arg).out # arg

\* C14: when validate_plan accepted a graph, validate_plan on the graph it
\* returned succeeds as well and returns a graph identical to the first one.
C14_ValidateIdempotent ==
    vres2 # NotCalled =>
        /\ vres2.ok
        /\ vres2.value = vres.value
        /\ vres2.value = PlannerTaskGraph(arg)

\* The second call was made on an accepted graph of three tasks.
C14_Witness ==
    vres2 # NotCalled /\ vres2.ok /\ Len(arg) = 3

\* C15: after sanitize_plan every task whose failure_policy was unset has the
\* policy retry, and every task whose failure_policy was abort, skip or retry
\* has the policy it had.
C15_SanitizeDefaults ==
    sres # NotCalled =>
        /\ Len(sres.value.tasks) = Len(sres.given.tasks)
        /\ \A i \in DOMAIN sres.given.tasks :
              LET before == sres.given.tasks[i].failure_policy
                  after == sres.value.tasks[i].failure_policy
              IN  /\ before \in Falsy => after = "retry"
                  /\ before \in FailurePolicies => after = before
        /\ arg = sres.value.tasks

\* sanitize_plan was given a task without a policy and a task with the
\* policy abort.
C15_Witness ==
    /\ sres # NotCalled
    /\ \E i, j \in DOMAIN sres.given.tasks :
          /\ sres.given.tasks[i].failure_policy = NonePolicy
          /\ sres.given.tasks[j].failure_policy = "abort"
          /\ sres.value.tasks[i].failure_policy = "retry"

\* C16: the fallback graph has at least three tasks, unique task_ids, no
\* depends_on entry without a task, a task with a dependency, no cycle and
\* registered tools only, and validate_plan accepts it.
C16_FallbackIsValid ==
    \A g \in Goals, c \in Contexts :
        vres # NotCalled /\ arg = fallback_plan(g, c).tasks =>
            /\ Len(arg) >= 3
            /\ UniqueIds(arg)
            /\ ~HasDangling(arg)
            /\ HasDependency(arg)
            /\ ~HasCycle(arg)
            /\ ~HasUnknownTool(arg, registry)
            /\ vres = Ok(fallback_plan(g, c))

\* validate_plan was called on the graph fallback_plan built.
C16_Witness ==
    /\ vres # NotCalled
    /\ arg = fallback_plan("Book dentist", None).tasks

\* C18: topological_sort of the fallback graph returns t1, t2, t3 or
\* t1, t3, t2: t1 is the first task of the result.
C18_FallbackOrder ==
    /\ ts.status = "returned"
    /\ \E g \in Goals, c \in Contexts : ts.tasks = fallback_plan(g, c).tasks
    => [i \in DOMAIN ts.out |-> ts.out[i].task_id]
          \in {<<"t1", "t2", "t3">>, <<"t1", "t3", "t2">>}

\* C19: get_tool(name) returns the entry registered under name when name is
\* a key of the catalog and fails with the lookup error when it is not; it
\* never returns an entry for an unregistered name.
C19_GetTool ==
    \A k \in DOMAIN lookups :
        lookups[k].op = "get_tool" =>
            LET name == lookups[k].name
                result == lookups[k].result
            IN  /\ name \in Keys(registry) =>
                      /\ result.ok
                      /\ \E i \in DOMAIN registry : result.value = registry[i]
                      /\ result.value.name = name
                /\ name \notin Keys(registry) =>
                      ~result.ok /\ result.type = "KeyError"

\* A registered name and an unregistered name have been looked up.
C19_Witness ==
    \E j, k \in DOMAIN lookups :
        /\ lookups[j].op = "get_tool" /\ lookups[j].result.ok
        /\ lookups[j].name = "booking_agent.propose"
        /\ lookups[k].op = "get_tool" /\ ~lookups[k].result.ok
        /\ lookups[k].name = UnknownToolName

\* C17: two planner_engine calls with different goals and different
\* contexts in which planning fails return graphs equal in every task and
\* every field.
C17_FallbackIgnoresRequest ==
    /\ pc = "done" /\ err # None
    /\ other.pc = "done" /\ other.err # None
    /\ goal # other.goal /\ context # other.context
    => ret = other.ret

\* Two calls with different goals and contexts have failed, one at the
\* completion and one in validate_plan.
C17_Witness ==
    /\ pc = "done" /\ err # None /\ err.type = "ValueError"
    /\ other.pc = "done" /\ other.err # None
    /\ other.err.type = "NotImplementedError"
    /\ goal # other.goal /\ context # other.context
    /\ ret # None

\* What planner_engine(g, c) returns when it runs by itself and the
\* completion gives r (None: the completion raised).
PlanAlone(r, g, c) ==
    IF r = None THEN fallback_plan(g, c)
    ELSE LET doc == json_loads(r)
         IN  IF ~doc.ok THEN fallback_plan(g, c)
             ELSE LET parsed == ParseGraph(doc.value)
                  IN  IF ~parsed.ok THEN fallback_plan(g, c)
                      ELSE LET v == validate_plan(sanitize_plan(parsed.value),
                                                  Catalog)
                           IN  IF v.ok THEN v.value ELSE fallback_plan(g, c)

\* C20: under every interleaving of the steps of two planner_engine calls
\* (and of calls that follow one another) each call returns the graph it
\* returns when run by itself with the same completion outcome, and the
\* registry the calls share stays as it was.
C20_CallsDoNotInterfere ==
    /\ registry = Catalog
    /\ pc = "done" => ret = PlanAlone(raw, goal, context)
    /\ other.pc = "done" =>
          other.ret = PlanAlone(other.raw, other.goal, other.context)

\* Both calls have returned, one the graph of its completion and the other
\* the fallback.
C20_Witness ==
    /\ pc = "done" /\ err = None /\ ret # fallback_plan(goal, context)
    /\ other.pc = "done" /\ other.err # None
    /\ other.ret = fallback_plan(other.goal, other.context)

\* C21: after any sequence of planner_engine, validate_plan, sanitize_plan,
\* topological_sort, get_tool and all_tools calls the catalog holds the five
\* tools it held at the start, with the same descriptions, inputs and
\* outputs, in the same order.
C21_RegistryReadOnly ==
    /\ registry = Catalog
    /\ Len(registry) = 5

\* validate_plan has met a tool that is not registered, and
\* topological_sort and sanitize_plan have been called on the same list.
C21_Witness ==
    /\ vres # NotCalled /\ ~vres.ok /\ vres.msg = "Unknown tool"
    /\ ts # Idle /\ sres # NotCalled

\* C22: planner_engine does not retry: the completion is called once, from
\* the start of the call only, validate_plan is run once, after sanitize_plan
\* only, and a failure of the completion, the parsing, sanitize_plan or
\* validate_plan leads to the handler, which returns the fallback without
\* another completion, parse or validation step.
C22_NoRetries ==
    [][/\ pc' = "complete" => pc = "idle"
       /\ pc' = "parse" => pc = "complete"
       /\ pc' = "validate" => pc = "sanitize"
       /\ pc = "complete" => pc' \in {"parse", "except"}
       /\ pc = "parse" => pc' \in {"sanitize", "except"}
       /\ pc = "validate" => pc' \in {"return", "except"}
       /\ pc' = "except" => err = None /\ err' # None
       /\ pc = "except" =>
             /\ pc' \in {"done", "raised"}
             /\ pc' = "done" => ret' = fallback_plan(goal, context)]_vars

\* A call whose completion output was no JSON has returned the fallback.
C22_Witness ==
    /\ pc = "done" /\ err # None /\ err.type = "JSONDecodeError"
    /\ ret = fallback_plan(goal, context)

\* C23: validate_plan checks dangling dependencies, then unknown tools, then
\* the absence of dependencies, then cycles, and reports the first failure
\* only: a dangling entry gives the dangling error whatever else is wrong, an
\* unknown tool without a dangling entry gives the unknown-tool error also
\* when no task has a dependency, and CycleDetected is reported only for a
\* graph without dangling entry and unknown tool.
C23_CheckOrder ==
    vres # NotCalled =>
        /\ HasDangling(arg) =>
              ~vres.ok /\ vres.msg = "depends_on references missing task_id"
        /\ ~HasDangling(arg) /\ HasUnknownTool(arg, registry) =>
              ~vres.ok /\ vres.msg = "Unknown tool"
        /\ ~vres.ok /\ vres.msg = "No dependencies between tasks" =>
              ~HasDangling(arg) /\ ~HasUnknownTool(arg, registry)
        /\ ~vres.ok /\ vres.type = CycleDetected =>
              /\ ~HasDangling(arg) /\ ~HasUnknownTool(arg, registry)
              /\ HasDependency(arg)

\* validate_plan was called on a graph with a dangling entry, an unknown
\* tool and a cycle.
C23_Witness ==
    /\ vres # NotCalled /\ ~vres.ok
    /\ HasDangling(arg) /\ HasUnknownTool(arg, registry) /\ HasCycle(arg)

\* The graph parsed from the completion output r, after sanitize_plan.
Sanitized(r) == sanitize_plan(ParseGraph(json_loads(r).value).value)

\* C24: when the completion, the parsing, sanitize_plan and validate_plan all
\* succeed, planner_engine returns the graph parsed from the completion
\* output after sanitizing (the same tasks in the same order, absent failure
\* policies defaulted) and not the fallback; sanitize_plan gets the parsed
\* graph and validate_plan gets the sanitized graph.
C24_ReturnsSanitizedGraph ==
    /\ pc = "sanitize" => plan = ParseGraph(json_loads(raw).value).value
    /\ pc \in {"validate", "return"} => plan = Sanitized(raw)
    /\ pc = "done" /\ err = None =>
          /\ ret = Sanitized(raw)
          /\ ret # fallback_plan(goal, context)
          /\ Len(ret.tasks) = Len(raw.tasks)
          /\ \A i \in DOMAIN ret.tasks :
                /\ ret.tasks[i].task_id = raw.tasks[i].task_id
                /\ ret.tasks[i].depends_on = raw.tasks[i].depends_on
                /\ ret.tasks[i].tool = raw.tasks[i].tool
                /\ ret.tasks[i].failure_policy =
                      IF raw.tasks[i].failure_policy = Missing
                      THEN "retry" ELSE raw.tasks[i].failure_policy

\* A call has returned the graph of its completion, in which the first task
\* came without a failure policy and the second with the policy skip.
C24_Witness ==
    /\ pc = "done" /\ err = None
    /\ Len(ret.tasks) = 2
    /\ raw.tasks[1].failure_policy = Missing
    /\ raw.tasks[2].failure_policy = "skip"

\* C25: when topological_sort raises CycleDetected, the task_id it names is
\* in progress on the active traversal path and is reachable from itself
\* over one or more depends_on edges of the input.
C25_CycleIdOnCycle ==
    ts.status = "raised" =>
        /\ ts.at \in ts.temp
        /\ \E n \in DOMAIN ts.stack : ts.stack[n].tid = ts.at
        /\ ts.at \in TaskIds(ts.tasks)
        /\ <<ts.at, ts.at>> \in Closure(DepEdges(ts.tasks))

\* The traversal came back to the task it started from through another
\* task.
C25_Witness ==
    /\ ts.status = "raised"
    /\ Len(ts.stack) = 2
    /\ ts.stack[1].tid = ts.at /\ ts.stack[2].tid # ts.at

\* The elements of seq that are in S, in their order.
SelectSeq2(seq, S) == SelectSeq(seq, LAMBDA x : x \in S)

\* The list with every depends_on entry that names no task of it removed.
Stripped(tasks) ==
    [i \in DOMAIN tasks |->
        [tasks[i] EXCEPT !.depends_on = SelectSeq2(@, TaskIds(tasks))]]

\* C26: topological_sort skips a depends_on entry that names no task of the
\* list: the entry causes no error and adds no element, and the call ends as
\* it does for the list without such entries, with the same tasks in the
\* same order.
C26_DanglingSkipped ==
    ts.status \in {"returned", "raised"} =>
        LET r == topological_sort(Stripped(ts.tasks))
        IN  /\ r.status = ts.status
            /\ ts.status = "raised" => r.at = ts.at /\ ts.at \in TaskIds(ts.tasks)
            /\ ts.status = "returned" =>
                  /\ r.out = Stripped(ts.out)
                  /\ \A i \in DOMAIN ts.out : \E j \in DOMAIN ts.tasks :
                        ts.out[i] = ts.tasks[j]

\* topological_sort has returned for a list of two tasks in which a
\* depends_on holds an entry without a task.
C26_Witness ==
    /\ ts.status = "returned"
    /\ HasDangling(ts.tasks)
    /\ Len(ts.out) = 2 /\ HasDependency(Stripped(ts.tasks))

\* C27: for a list whose dependency relation has no cycle, topological_sort
\* returns a sequence and does not raise CycleDetected, also when a task is
\* reached again after its visit is finished, and no task is in progress
\* when it returns.
C27_NoFalseCycle ==
    ts.status \in {"returned", "raised"} /\ ~HasCycle(ts.tasks) =>
        /\ ts.status = "returned"
        /\ ts.temp = {}
        /\ ts.stack = <<>>

\* topological_sort has returned for three tasks with three dependency
\* edges: the last task was reached once through the second and once more,
\* finished, from the first.
C27_Witness ==
    /\ ts.status = "returned"
    /\ UniqueIds(ts.tasks) /\ ~HasCycle(ts.tasks) /\ ~HasDangling(ts.tasks)
    /\ Len(ts.tasks) = 3 /\ EdgeCount(ts.tasks) = 3

\* The ids of the tasks that list their own task_id in depends_on.
SelfDependent(tasks) ==
    {tasks[i].task_id : i \in {k \in DOMAIN tasks :
        \E j \in DOMAIN tasks[k].depends_on :
            tasks[k].depends_on[j] = tasks[k].task_id}}

\* C28: for a list with a task that names its own task_id in depends_on,
\* topological_sort raises CycleDetected naming such a task, and
\* validate_plan rejects the graph with CycleDetected when it has no dangling
\* entry and registered tools only.
C28_SelfDependencyIsCycle ==
    vres # NotCalled /\ SelfDependent(arg) # {} =>
        /\ LET r == topological_sort(arg)
           IN  r.status = "raised" /\ r.at \in SelfDependent(arg)
        /\ ~HasDangling(arg) /\ ~HasUnknownTool(arg, registry) =>
              ~vres.ok /\ vres.type = CycleDetected

\* C29: sanitize_plan returns for every graph, and returns the graph it was
\* given with as many tasks in the same order and with task_id, title,
\* intent, tool, inputs, expected_outputs, depends_on, success_criteria and
\* est_duration_min of every task as they were; a second sanitize_plan
\* changes nothing.
C29_SanitizeFrame ==
    sres # NotCalled =>
        /\ DOMAIN sres.value.tasks = DOMAIN sres.given.tasks
        /\ \A i \in DOMAIN sres.given.tasks :
              [sres.value.tasks[i] EXCEPT !.failure_policy = "retry"]
                 = [sres.given.tasks[i] EXCEPT !.failure_policy = "retry"]
        /\ \A i \in DOMAIN sres.given.tasks :
              sres.given.tasks[i].failure_policy \notin Falsy =>
                  sres.value.tasks[i] = sres.given.tasks[i]
        /\ sanitize_plan(sres.value) = sres.value

\* sanitize_plan was called on two tasks, the first with the empty string as
\* policy and the second depending on the first.
C29_Witness ==
    /\ sres # NotCalled
    /\ Len(sres.given.tasks) = 2
    /\ sres.given.tasks[1].failure_policy = ""
    /\ sres.given.tasks[2].depends_on = <<sres.given.tasks[1].task_id>>
    /\ sres.value # sres.given

\* C30: when topological_sort returns, the result holds one task per
\* distinct task_id of the input, for a shared task_id the last input task
\* with it; the result is shorter than the input when task_ids are shared and
\* as long as the input exactly when all task_ids are distinct.
C30_OneTaskPerId ==
    ts.status = "returned" =>
        /\ Len(ts.out) = Cardinality(TaskIds(ts.tasks))
        /\ TaskIds(ts.out) = TaskIds(ts.tasks)
        /\ \A i \in DOMAIN ts.out :
              LET same == {j \in DOMAIN ts.tasks :
                              ts.tasks[j].task_id = ts.out[i].task_id}
              IN  /\ same # {}
                  /\ ts.out[i] = ts.tasks[CHOOSE j \in same :
                                             \A k \in same : k <= j]
        /\ ~UniqueIds(ts.tasks) => Len(ts.out) < Len(ts.tasks)
        /\ Len(ts.out) = Len(ts.tasks) <=> UniqueIds(ts.tasks)

\* topological_sort has returned for a list in which two different tasks
\* share a task_id.
C30_Witness ==
    /\ ts.status = "returned"
    /\ Len(ts.tasks) = 3 /\ Len(ts.out) = 2
    /\ \E i, j \in DOMAIN ts.tasks :
          /\ i < j
          /\ ts.tasks[i].task_id = ts.tasks[j].task_id
          /\ ts.tasks[i] # ts.tasks[j]

====
